---- MODULE Spec2Model ----
(***************************************************************************)
(* A model of the loss heads and the keypoint extractor of AirLoop         *)
(* (src/models/loss.py, src/models/featurenet.py).                         *)
(*                                                                         *)
(* The module holds one specification per component:                       *)
(*   SpecGD  GlobalDescMatchLoss.forward and the Memory store it drives    *)
(*   SpecDM  DiscriptorMatchLoss.forward on one batch                      *)
(*   SpecCV  feature_pt_ncovis on one batch of projections                 *)
(*   SpecKP  the keypoint selection of FeatureNet.forward                  *)
(*   SpecPX  the pixel index -> normalized coordinate -> pixel round trip  *)
(*   SpecRK  the relevance term of the ranking loss                        *)
(*   SpecBF  the match/mismatch blending factor of DiscriptorMatchLoss     *)
(* A specification leaves the variables of the other components idle.      *)
(***************************************************************************)
EXTENDS Integers, Sequences, FiniteSets, TLC

VARIABLES
    mem,        \* Memory: environment -> sequence of stored frames (oldest first)
    active,     \* Memory: the environment whose buffer is active (0: none yet)
    calls,      \* number of GlobalDescMatchLoss.forward calls started so far
    writer,     \* GlobalDescMatchLoss.writer is not None
    pc,         \* position of the running forward call in ForwardOrder (0: no call)
    curEnv,     \* the env argument of the running call
    lenAtStart, \* occupancy of the env's buffer when the call started
    memOps,     \* the Memory operations the running call has made, in order
    lenReads,   \* the values len(self.memory) returned to the running call
    sampled,    \* the frames sample_frames returned to the running call
    branch,     \* "none", "rank" (line 144-157) or "cold" (line 159)
    loss,       \* the value of `loss` of the running call
    result,     \* what the call returned (NoValue before it returns)
    failed,     \* the call raised
    \* DiscriptorMatchLoss.forward
    dist,       \* the (B,B,N,N) tensor `dist` after line 213
    desc,       \* `descriptors`: (frame, point) -> vector
    dmPc,       \* "off", "input" or "done"
    dmOut,      \* what forward computed
    \* feature_pt_ncovis
    cvIn,       \* per (pair, point): what world2pix and grid_sample returned
    cvPc,       \* "off", "input" or "done"
    cvOut,      \* pts0_scr1 after line 189 and n_covis
    \* FeatureNet.forward
    kpIn,       \* the input shape, feat_num and the scores' order
    kpPc,       \* "off", "input" or "done"
    kpOut,      \* the keypoints, or the error raised
    \* pixel round trip
    pxIn,       \* H, W and the flat index
    pxPc,       \* "off", "input", "normalized" or "done"
    pxOut,      \* the normalized and the denormalized coordinates
    \* ranking loss
    rkIn,       \* the co-visibility counts n_covis, (sampled frame, batch frame)
    rkPc,       \* "off", "input" or "done"
    rkOut,      \* the relevance ratios and log-ratios
    \* blending factor
    bfIn,       \* the radius, the distances of the pairs and their cosine
    bfPc,       \* "off", "input", "blended" or "done"
    bfOut       \* the masks, the factors and the label weights of nll

gdVars == <<mem, active, calls, writer, pc, curEnv, lenAtStart, memOps,
            lenReads, sampled, branch, loss, result, failed>>
dmVars == <<dist, desc, dmPc, dmOut>>
cvVars == <<cvIn, cvPc, cvOut>>
kpVars == <<kpIn, kpPc, kpOut>>
pxVars == <<pxIn, pxPc, pxOut>>
rkVars == <<rkIn, rkPc, rkOut>>
bfVars == <<bfIn, bfPc, bfOut>>

vars == <<gdVars, dmVars, cvVars, kpVars, pxVars, rkVars, bfVars>>

\* a component that takes no part in the specification checked
GDIdle ==
    /\ mem = <<>> /\ active = 0 /\ calls = 0 /\ writer = FALSE /\ pc = 0
    /\ curEnv = 0 /\ lenAtStart = 0 /\ memOps = <<>> /\ lenReads = <<>>
    /\ sampled = {} /\ branch = "none" /\ loss = "none" /\ result = "none"
    /\ failed = FALSE
DMIdle == dist = <<>> /\ desc = <<>> /\ dmPc = "off" /\ dmOut = "none"
CVIdle == cvIn = <<>> /\ cvPc = "off" /\ cvOut = "none"
KPIdle == kpIn = <<>> /\ kpPc = "off" /\ kpOut = "none"
PXIdle == pxIn = <<>> /\ pxPc = "off" /\ pxOut = "none"
RKIdle == rkIn = <<>> /\ rkPc = "off" /\ rkOut = "none"
BFIdle == bfIn = <<>> /\ bfPc = "off" /\ bfOut = "none"

----------------------------------------------------------------------------
(* Values shared by the components *)

\* float('nan') / np.nan: a value no number of the model takes
NaN == -1000

\* IEEE comparisons: every comparison with NaN is false
Leq(x, y) == x # NaN /\ y # NaN /\ x <= y

Gt(x, y) == x # NaN /\ y # NaN /\ x > y

Lt(x, y) == x # NaN /\ y # NaN /\ x < y

Abs(x) == IF x < 0 THEN -x ELSE x

RECURSIVE SumSeq(_)
SumSeq(s) == IF s = <<>> THEN 0 ELSE Head(s) + SumSeq(Tail(s))

\* the order torch.topk sorts by: NaN counts as the largest value
TopGeq(x, y) == x = NaN \/ (y # NaN /\ x >= y)

\* s with x put before its first element not above x (s is descending)
RECURSIVE InsertDesc(_, _)
InsertDesc(s, x) ==
    IF s = <<>> THEN <<x>>
    ELSE IF TopGeq(x, Head(s)) THEN <<x>> \o s
    ELSE <<Head(s)>> \o InsertDesc(Tail(s), x)

RECURSIVE SortDesc(_)
SortDesc(s) == IF s = <<>> THEN <<>> ELSE InsertDesc(SortDesc(Tail(s)), Head(s))

\* no value yet
NoValue == "none"

Range(s) == {s[i] : i \in 1..Len(s)}

Max2(a, b) == IF a >= b THEN a ELSE b

Min2(a, b) == IF a <= b THEN a ELSE b

----------------------------------------------------------------------------
(* GlobalDescMatchLoss.forward and Memory *)

\* bounds of the model
NumEnvs == 2
MaxCalls == 4
MemCap == 2
MaxRankLoss == 1

\* n_sample=8, the default of GlobalDescMatchLoss.__init__
NSample == 8

Envs == 1..NumEnvs

\* Memory.swap(env): the buffer of env becomes the active one
MemorySwap(env) == env

\* len(memory): occupancy of the active buffer
MemoryLen(m, a) == Len(m[a])

\* Memory.store(gd, descriptors, points_w): append the frame, the oldest
\* occupant leaves when the buffer is full
MemoryStore(buf, frame) ==
    IF Len(buf) < MemCap THEN Append(buf, frame)
    ELSE Append(Tail(buf), frame)

\* Memory.sample_frames(k): up to k frames drawn from the current occupants
MemorySampleFrames(buf, k) ==
    {S \in SUBSET Range(buf) : S # {} /\ Cardinality(S) <= k}

\* the branch condition of line 143 (mutant: the rank branch on any occupancy)
MemNonEmpty_Always(n) == n >= 0

\* line 143: len(self.memory) > 0
MemNonEmpty(n) == n > 0

\* the statements of forward in a changed order: store before the loss
ForwardOrder_StoreFirst == <<"swap", "store", "loss", "log", "return">>

\* the statements of forward that touch Memory or the result, in program order
ForwardOrder == <<"swap", "loss", "log", "store", "return">>

At(point) == pc \in 1..Len(ForwardOrder) /\ ForwardOrder[pc] = point

Advance == pc' = pc + 1

\* the trainer calls forward(..., env)
Call(env) ==
    /\ pc = 0
    /\ ~failed
    /\ calls < MaxCalls
    /\ calls' = calls + 1
    /\ curEnv' = env
    /\ lenAtStart' = Len(mem[env])
    /\ pc' = 1
    /\ memOps' = <<>>
    /\ lenReads' = <<>>
    /\ sampled' = {}
    /\ branch' = "none"
    /\ loss' = NoValue
    /\ result' = NoValue
    /\ UNCHANGED <<mem, active, writer, failed>>
    /\ UNCHANGED <<dmVars, cvVars, kpVars, pxVars, rkVars, bfVars>>

\* line 138: self.memory.swap(env)
Swap ==
    /\ At("swap")
    /\ active' = MemorySwap(curEnv)
    /\ memOps' = Append(memOps, "swap")
    /\ Advance
    /\ UNCHANGED <<mem, calls, writer, curEnv, lenAtStart, lenReads, sampled,
                   branch, loss, result, failed>>
    /\ UNCHANGED <<dmVars, cvVars, kpVars, pxVars, rkVars, bfVars>>

\* lines 143-157: the memory holds frames; sample them and rank
RankLoss ==
    /\ At("loss")
    /\ MemNonEmpty(MemoryLen(mem, active))
    /\ lenReads' = Append(lenReads, MemoryLen(mem, active))
    /\ branch' = "rank"
    /\ IF MemorySampleFrames(mem[active], NSample) = {}
       THEN \* nothing to draw from: sample_frames raises
            /\ failed' = TRUE
            /\ pc' = 0
            /\ memOps' = memOps \o <<"len", "sample">>
            /\ UNCHANGED <<sampled, loss>>
       ELSE /\ \E S \in MemorySampleFrames(mem[active], NSample) : sampled' = S
            /\ \E v \in 0..MaxRankLoss : loss' = v
            /\ memOps' = memOps \o <<"len", "sample">>
            /\ Advance
            /\ UNCHANGED failed
    /\ UNCHANGED <<mem, active, calls, writer, curEnv, lenAtStart, result>>
    /\ UNCHANGED <<dmVars, cvVars, kpVars, pxVars, rkVars, bfVars>>

\* lines 158-159: cold start, loss = torch.zeros(1)
ColdLoss ==
    /\ At("loss")
    /\ ~MemNonEmpty(MemoryLen(mem, active))
    /\ lenReads' = Append(lenReads, MemoryLen(mem, active))
    /\ memOps' = Append(memOps, "len")
    /\ branch' = "cold"
    /\ loss' = 0
    /\ Advance
    /\ UNCHANGED <<mem, active, calls, writer, curEnv, lenAtStart, sampled,
                   result, failed>>
    /\ UNCHANGED <<dmVars, cvVars, kpVars, pxVars, rkVars, bfVars>>

\* the len(self.memory) reads of lines 163, 164 (writer only) and 168
LogReads == IF writer THEN 3 ELSE 1

\* lines 161-174: logging and visualisation, which only read the occupancy
Log ==
    /\ At("log")
    /\ lenReads' = lenReads \o [i \in 1..LogReads |-> MemoryLen(mem, active)]
    /\ memOps' = memOps \o [i \in 1..LogReads |-> "len"]
    /\ Advance
    /\ UNCHANGED <<mem, active, calls, writer, curEnv, lenAtStart, sampled,
                   branch, loss, result, failed>>
    /\ UNCHANGED <<dmVars, cvVars, kpVars, pxVars, rkVars, bfVars>>

\* line 176: self.memory.store(gd, descriptors, points_w); the frame is
\* named by the number of the call that stores it
Store ==
    /\ At("store")
    /\ mem' = [mem EXCEPT ![active] = MemoryStore(mem[active], calls)]
    /\ memOps' = Append(memOps, "store")
    /\ Advance
    /\ UNCHANGED <<active, calls, writer, curEnv, lenAtStart, lenReads,
                   sampled, branch, loss, result, failed>>
    /\ UNCHANGED <<dmVars, cvVars, kpVars, pxVars, rkVars, bfVars>>

\* line 178: return loss.mean()
Return ==
    /\ At("return")
    /\ result' = loss
    /\ pc' = 0
    /\ UNCHANGED <<mem, active, calls, writer, curEnv, lenAtStart, memOps,
                   lenReads, sampled, branch, loss, failed>>
    /\ UNCHANGED <<dmVars, cvVars, kpVars, pxVars, rkVars, bfVars>>

GDInit ==
    /\ mem = [e \in Envs |-> <<>>]
    /\ active = 0
    /\ calls = 0
    /\ writer \in BOOLEAN
    /\ pc = 0
    /\ curEnv = 0
    /\ lenAtStart = 0
    /\ memOps = <<>>
    /\ lenReads = <<>>
    /\ sampled = {}
    /\ branch = "none"
    /\ loss = NoValue
    /\ result = NoValue
    /\ failed = FALSE

InitGD == GDInit /\ DMIdle /\ CVIdle /\ KPIdle /\ PXIdle /\ RKIdle /\ BFIdle

NextGD ==
    \/ \E env \in Envs : Call(env)
    \/ Swap
    \/ RankLoss
    \/ ColdLoss
    \/ Log
    \/ Store
    \/ Return

SpecGD == InitGD /\ [][NextGD]_vars

----------------------------------------------------------------------------
(* DiscriptorMatchLoss.forward *)

\* bounds of the model: B frames of N keypoints, every keypoint's score is
\* exp(-ScoreLevel)
BatchSize == 2
NumPoints == 2
ScoreLevel == 1

\* radius=1, the default of DiscriptorMatchLoss.__init__
Radius == 1

\* .triu(diagonal=1)
TriuDiagonal == 1

\* pixel distances reach past 2 * radius, where the blending factor is clamped
MaxDist == 2 * Radius + 1

Frames == 1..BatchSize
Points == 1..NumPoints

\* the indices (a, b, i, j) of a (B,B,N,N) tensor
Entries == Frames \X Frames \X Points \X Points

DistVals == (0..MaxDist) \cup {NaN}

\* descriptors: unit vectors along the axes
DescVals == {<<1, 0>>, <<0, 1>>, <<-1, 0>>}

\* the place of an entry in the flattened tensor (row-major), from 1
EntryIndex(e) ==
    (((e[1] - 1) * BatchSize + (e[2] - 1)) * NumPoints + (e[3] - 1)) * NumPoints + e[4]

EntrySeq ==
    [k \in 1..Cardinality(Entries) |-> CHOOSE e \in Entries : EntryIndex(e) = k]

\* tensor[mask]: the entries the mask selects, in row-major order
MaskSeq(mask) == SelectSeq(EntrySeq, LAMBDA e : e \in mask)

\* torch.triu of a batch of matrices: it acts on the last two dimensions,
\* keeping the entries with j - i >= diagonal
Triu(e) == e[4] - e[3] >= TriuDiagonal

\* line 216: dist <= self.radius
MatchCond(d) == Leq(d, Radius)

\* line 217 with the negation of the match condition, true of NaN
MissCond_NotMatch(d) == ~Leq(d, Radius)

\* line 217: dist > self.radius
MissCond(d) == Gt(d, Radius)

Match(d) == {e \in Entries : MatchCond(d[e]) /\ Triu(e)}

Miss(d) == {e \in Entries : MissCond(d[e]) /\ Triu(e)}

\* lines 220, 223: sig = -log(score_ave); the two scores are exp(-ScoreLevel),
\* so is their average (the clamp at eps = 1e-6 leaves it alone)
Sig(e) == ScoreLevel

Dot(x, y) == x[1] * y[1] + x[2] * y[2]

Isqrt(n) == CHOOSE r \in 0..n : r * r <= n /\ (r + 1) * (r + 1) > n

\* PairwiseCosine.forward, 'amd,bnd->abmn': xy / sqrt(clamp(xx * yy))
PCos(ds, e) ==
    LET x == ds[<<e[1], e[3]>>]
        y == ds[<<e[2], e[4]>>]
    IN  Dot(x, y) \div Isqrt(Max2(Dot(x, x) * Dot(y, y), 1))

\* the blending factor f(d.clamp(max=2r)) = AlphaNum / AlphaDen,
\* f(d) = 0.75 - (d - r)(d + r) / (4 r^2)
AlphaDen == 4 * Radius * Radius

AlphaNum(d) ==
    IF d = NaN THEN NaN
    ELSE LET c == Min2(d, 2 * Radius)
         IN  3 * Radius * Radius - (c - Radius) * (c + Radius)

\* log(sig * (1 - exp(-1 / sig))), in thousandths
NormConst(sig) ==
    CASE sig = 1 -> -459
      [] sig = 2 -> -240
      [] sig = 3 -> -162
      [] OTHER -> -122

\* nll(sig, cos, match), in thousandths:
\* ((1 - cos) * match + cos * (1 - match)) / sig + norm_const
NLL(sig, cos, alphaNum) ==
    IF alphaNum = NaN THEN NaN
    ELSE (((1 - cos) * alphaNum + cos * (AlphaDen - alphaNum)) * 1000)
            \div (AlphaDen * sig) + NormConst(sig)

LossOf(d, ds, entries) ==
    [k \in 1..Len(entries) |->
        NLL(Sig(entries[k]), PCos(ds, entries[k]), AlphaNum(d[entries[k]]))]

\* tensor.topk(k) raises when the tensor holds fewer than k elements
TopKRaises(s, k) == k > Len(s)

\* tensor.topk(k): the k largest values, largest first
TopK(s, k) == SubSeq(SortDesc(s), 1, k)

\* tensor.mean() of an empty tensor, or of one that holds a NaN, is NaN
MeanIsNaN(s) == Len(s) = 0 \/ NaN \in Range(s)

Mean(s) == SumSeq(s) \div Len(s)

\* a static camera: keypoint i of every frame lies at pixel i * spacing, and
\* the points projected into a frame that does not see them are invisible
BaseDist(spacing, covisible) ==
    [e \in Entries |->
        IF e[1] # e[2] /\ ~covisible THEN NaN
        ELSE Min2(Abs(e[3] - e[4]) * spacing, MaxDist)]

BaseDesc == [p \in Frames \X Points |-> <<1, 0>>]

DMInit ==
    /\ \E spacing \in 0..MaxDist, covisible \in BOOLEAN,
          e \in Entries, v \in DistVals :
            dist = [BaseDist(spacing, covisible) EXCEPT ![e] = v]
    /\ \E p \in Frames \X Points, v \in DescVals :
            desc = [BaseDesc EXCEPT ![p] = v]
    /\ dmPc = "input"
    /\ dmOut = NoValue

\* lines 212-280: what forward computes from dist and the descriptors
DMResult(d, ds) ==
    LET match == Match(d)
        miss == Miss(d)
        lossMatch == LossOf(d, ds, MaskSeq(match))
        lossMiss == LossOf(d, ds, MaskSeq(miss))
        k == 2 * Cardinality(match)
        raises == TopKRaises(lossMiss, k)
        kept == IF raises THEN <<>> ELSE TopK(lossMiss, k)
        finite == ~raises /\ ~MeanIsNaN(lossMatch) /\ ~MeanIsNaN(kept)
    IN  [status |-> IF raises THEN "raised" ELSE "returned",
         match |-> match, miss |-> miss,
         lossMatch |-> lossMatch, lossMiss |-> lossMiss,
         kept |-> kept,
         finite |-> finite,
         value |-> IF finite THEN Mean(lossMatch) + Mean(kept) ELSE NaN]

\* lines 208-280: forward returns loss_match.mean() + loss_miss.mean()
DMForward ==
    /\ dmPc = "input"
    /\ dmOut' = DMResult(dist, desc)
    /\ dmOut'.status = "returned"
    /\ dmPc' = "done"
    /\ UNCHANGED <<dist, desc>>
    /\ UNCHANGED <<gdVars, cvVars, kpVars, pxVars, rkVars, bfVars>>

\* line 248: loss_miss.topk(match.sum() * 2) raises, there are too few misses
DMForwardRaises ==
    /\ dmPc = "input"
    /\ dmOut' = DMResult(dist, desc)
    /\ dmOut'.status = "raised"
    /\ dmPc' = "done"
    /\ UNCHANGED <<dist, desc>>
    /\ UNCHANGED <<gdVars, cvVars, kpVars, pxVars, rkVars, bfVars>>

InitDM == DMInit /\ GDIdle /\ CVIdle /\ KPIdle /\ PXIdle /\ RKIdle /\ BFIdle

NextDM ==
    \/ DMForward
    \/ DMForwardRaises

SpecDM == InitDM /\ [][NextDM]_vars

----------------------------------------------------------------------------
(* feature_pt_ncovis *)

\* bounds of the model: B0 reference frames of N points, B1 target frames,
\* depths -1..MaxDepth
NumRefs == 2
NumTargets == 2
NumRefPoints == 2
MaxDepth == 2

\* the image bound of line 189, pts0_scr1.abs() > 1
ScrBound == 1

\* eps=1e-2; the depths of the model are multiples of eps
Eps == 1

Refs == 1..NumRefs
Targets == 1..NumTargets
RefPoints == 1..NumRefPoints

\* the (reference, target) pairs, the rows of src_repeat(pos0, B1)
Pairs == Refs \X Targets

\* normalized screen coordinates, some outside the image
CoordVals == (-(ScrBound + 1))..(ScrBound + 1)

DepthVals == (-1)..MaxDepth

\* what line 186-188 hand to line 189 for one point: its pixel pts0_scr1,
\* its depth pts0_depth1, and the target's depth there, pts0_scr1_depth1
Projections ==
    [x : CoordVals, y : CoordVals, depth : DepthVals, sampled : DepthVals]

\* the condition of line 189 as the spec words it: a non-positive depth, a
\* depth that differs from the sampled one by more than eps, or out of bounds
InvalidProj_Spec(r) ==
    \/ Leq(r.depth, 0)
    \/ Gt(r.depth, r.sampled + Eps)
    \/ Lt(r.depth, r.sampled - Eps)
    \/ Gt(Abs(r.x), ScrBound) \/ Gt(Abs(r.y), ScrBound)

\* the condition of line 189 with a non-positive depth test
InvalidProj_NonPositive(r) ==
    \/ Leq(r.depth, 0)
    \/ Gt(r.depth, r.sampled + Eps)
    \/ Gt(Abs(r.x), ScrBound) \/ Gt(Abs(r.y), ScrBound)

\* line 189: (pts0_depth1 < 0) | (pts0_depth1 > pts0_scr1_depth1 + eps)
\*           | ((pts0_scr1.abs() > 1).any(dim=-1))
InvalidProj(r) ==
    \/ Lt(r.depth, 0)
    \/ Gt(r.depth, r.sampled + Eps)
    \/ Gt(Abs(r.x), ScrBound) \/ Gt(Abs(r.y), ScrBound)

\* line 189: pts0_scr1[...] = np.nan
MarkInvalid(r) == IF InvalidProj(r) THEN <<NaN, NaN>> ELSE <<r.x, r.y>>

\* line 191: isfinite().all(dim=-1)
IsFinitePoint(c) == c[1] # NaN /\ c[2] # NaN

\* line 191: n_covis = pts0_scr1.isfinite().all(dim=-1).sum(dim=-1)
NCovis(scr, pair) ==
    Cardinality({n \in RefPoints : IsFinitePoint(scr[<<pair, n>>])})

\* a point that projects to the image centre at the depth the target sees,
\* in front of the camera or behind it
BaseProjections ==
    {[x |-> 0, y |-> 0, depth |-> d, sampled |-> d] : d \in {-1, MaxDepth}}

\* every point projects as `base`, but the points `mask` of pair `pair`
\* project as `r`
CVInit ==
    /\ \E base \in BaseProjections, pair \in Pairs,
          mask \in SUBSET RefPoints, r \in Projections :
            cvIn = [k \in Pairs \X RefPoints |->
                      IF k[1] = pair /\ k[2] \in mask THEN r ELSE base]
    /\ cvPc = "input"
    /\ cvOut = NoValue

\* lines 181-195: feature_pt_ncovis(..., ret_proj=True)
FeaturePtNcovis ==
    /\ cvPc = "input"
    /\ LET scr == [k \in Pairs \X RefPoints |-> MarkInvalid(cvIn[k])]
       IN  cvOut' = [scr |-> scr,
                     ncovis |-> [pair \in Pairs |-> NCovis(scr, pair)]]
    /\ cvPc' = "done"
    /\ UNCHANGED cvIn
    /\ UNCHANGED <<gdVars, dmVars, kpVars, pxVars, rkVars, bfVars>>

InitCV == CVInit /\ GDIdle /\ DMIdle /\ KPIdle /\ PXIdle /\ RKIdle /\ BFIdle

NextCV == FeaturePtNcovis

SpecCV == InitCV /\ [][NextCV]_vars

----------------------------------------------------------------------------
(* Pixel indices and normalized coordinates *)

\* bound of the model: images of 1..MaxPxSide rows and columns
MaxPxSide == 6

\* eps=1e-8 of kornia's normalize_pixel_coordinates, as 1 / eps
EpsInv == 100000000

\* points % W, idx % W
DecodeX(idx, w) == idx % w

\* points // W, idx // W
DecodeY(idx, w) == idx \div w

\* a normalization that takes -1 and 1 for the outer edges of the border
\* pixels (align_corners=False): 2 x / size - 1
NormalizeCoord_Edges(x, size) == <<2 * x - size, size>>

\* kornia normalize_pixel_coordinates along one axis, as a fraction <<n, d>>:
\* x * 2 / (size - 1).clamp(eps) - 1
NormalizeCoord(x, size) ==
    IF size > 1 THEN <<2 * x - (size - 1), size - 1>>
    ELSE <<2 * x * EpsInv - 1, 1>>

\* kornia denormalize_pixel_coordinates along one axis, as a fraction:
\* (c + 1) / (2 / (size - 1).clamp(eps))
DenormalizeCoord(c, size) ==
    IF size > 1 THEN <<(c[1] + c[2]) * (size - 1), 2 * c[2]>>
    ELSE <<c[1] + c[2], 2 * c[2] * EpsInv>>

\* Tensor.round() of the fraction q (q[2] > 0): to the nearest integer, a
\* half to the even one
RoundFrac(q) ==
    LET f == q[1] \div q[2]
        r == q[1] % q[2]
    IN  IF 2 * r < q[2] THEN f
        ELSE IF 2 * r > q[2] THEN f + 1
        ELSE IF f % 2 = 0 THEN f ELSE f + 1

PXInit ==
    /\ \E h \in 1..MaxPxSide, w \in 1..MaxPxSide, idx \in 0..(MaxPxSide * MaxPxSide) :
          /\ idx < h * w
          /\ pxIn = [H |-> h, W |-> w, idx |-> idx]
    /\ pxPc = "input"
    /\ pxOut = NoValue

\* featurenet.py lines 104-106 (loss.py lines 93, 102): index to (x, y),
\* then normalize_pixel_coordinates(points, H, W)
PxNormalize ==
    /\ pxPc = "input"
    /\ pxOut' = [x |-> NormalizeCoord(DecodeX(pxIn.idx, pxIn.W), pxIn.W),
                 y |-> NormalizeCoord(DecodeY(pxIn.idx, pxIn.W), pxIn.H),
                 px |-> NoValue, py |-> NoValue]
    /\ pxPc' = "normalized"
    /\ UNCHANGED pxIn
    /\ UNCHANGED <<gdVars, dmVars, cvVars, kpVars, rkVars, bfVars>>

\* loss.py line 106: denormalize_pixel_coordinates(coords, H, W).round()
PxDenormalize ==
    /\ pxPc = "normalized"
    /\ pxOut' = [pxOut EXCEPT
                   !.px = RoundFrac(DenormalizeCoord(pxOut.x, pxIn.W)),
                   !.py = RoundFrac(DenormalizeCoord(pxOut.y, pxIn.H))]
    /\ pxPc' = "done"
    /\ UNCHANGED pxIn
    /\ UNCHANGED <<gdVars, dmVars, cvVars, kpVars, rkVars, bfVars>>

InitPX == PXInit /\ GDIdle /\ DMIdle /\ CVIdle /\ KPIdle /\ RKIdle /\ BFIdle

NextPX ==
    \/ PxNormalize
    \/ PxDenormalize

SpecPX == InitPX /\ [][NextPX]_vars

----------------------------------------------------------------------------
(* FeatureNet.forward: the selection of keypoints *)

\* bounds of the model: images per batch; the sides of the input exceed
\* the smallest side with a score map inside its border by at most
\* SideSlack; feat_num lies within FeatSlack of the size of that score map;
\* the best-scoring pixel of an image has a flat index of at most MaxStart
KpBatch == 2
SideSlack == 1
FeatSlack == 1
MaxStart == 2

\* the max-pool layers among the first 15 layers of vgg13
NumPools == 3

\* kernel and stride of a vgg13 max-pool layer
PoolStride == 2

\* PixelShuffle(upscale_factor=8)
UpscaleFactor == 8

\* n max-pool layers of stride 2, no padding, on a side of h pixels
RECURSIVE Pooled(_, _)
Pooled(h, n) == IF n = 0 THEN h ELSE Pooled(h \div PoolStride, n - 1)

\* a score map of the size of the input
ScoreMapSide_Input(h) == h

\* the side of the pointness map of an input side h: pooled by the feature
\* layers, then upscaled by the pixel shuffle; the border keeps the size
ScoreMapSide(h) == UpscaleFactor * Pooled(h, NumPools)

\* the smallest input side whose score map is larger than its border
MinSide == 2 * UpscaleFactor

KpSides == MinSide..(MinSide + SideSlack)

KpFeatNums ==
    (ScoreMapSide(MinSide) * ScoreMapSide(MinSide) - FeatSlack)
        ..(ScoreMapSide(MinSide) * ScoreMapSide(MinSide) + FeatSlack)

\* .view(B, -1, 1).topk(self.feat_num, dim=1) raises when the dimension
\* holds fewer than feat_num elements
KpTopKRaises(n, k) == k > n

\* the indices topk returns for one image: k distinct flat indices of the
\* score map of n pixels, here the run that starts at the best pixel
KpTopK(n, k, start) == [i \in 1..k |-> (start + i - 1) % n]

\* lines 104-106: (points % W, points // W), normalized with H and W
KpPoint(idx, h, w) ==
    <<NormalizeCoord(DecodeX(idx, w), w), NormalizeCoord(DecodeY(idx, w), h)>>

KPInit ==
    /\ \E h \in KpSides, w \in KpSides, k \in KpFeatNums,
          st \in [1..KpBatch -> 0..MaxStart] :
          kpIn = [H |-> h, W |-> w, featNum |-> k, start |-> st]
    /\ kpPc = "input"
    /\ kpOut = NoValue

KpMapSize == ScoreMapSide(kpIn.H) * ScoreMapSide(kpIn.W)

\* forward, lines 94-118, when topk returns
KpForward ==
    /\ kpPc = "input"
    /\ ~KpTopKRaises(KpMapSize, kpIn.featNum)
    /\ kpOut' = [status |-> "returned",
                 points |-> [b \in 1..KpBatch |->
                    LET sel == KpTopK(KpMapSize, kpIn.featNum, kpIn.start[b])
                    IN  [i \in 1..Len(sel) |-> KpPoint(sel[i], kpIn.H, kpIn.W)]]]
    /\ kpPc' = "done"
    /\ UNCHANGED kpIn
    /\ UNCHANGED <<gdVars, dmVars, cvVars, pxVars, rkVars, bfVars>>

\* forward when topk raises at line 102
KpForwardRaises ==
    /\ kpPc = "input"
    /\ KpTopKRaises(KpMapSize, kpIn.featNum)
    /\ kpOut' = [status |-> "raised", points |-> <<>>]
    /\ kpPc' = "done"
    /\ UNCHANGED kpIn
    /\ UNCHANGED <<gdVars, dmVars, cvVars, pxVars, rkVars, bfVars>>

InitKP == KPInit /\ GDIdle /\ DMIdle /\ CVIdle /\ PXIdle /\ RKIdle /\ BFIdle

NextKP ==
    \/ KpForward
    \/ KpForwardRaises

SpecKP == InitKP /\ [][NextKP]_vars

----------------------------------------------------------------------------
(* GlobalDescMatchLoss.forward: the relevance term of the ranking loss *)

\* bound of the model: frames of the current batch
RkBatch == 2

\* n_feature=250: the points stored per frame, the largest co-visibility
NFeature == 250

\* relevance = (251 - relevance).sqrt()
RelOffset == 251

RkSampled == 1..NSample
RkFrames == 1..RkBatch

\* a radicand that takes the number of stored points as the offset
Radicand_NFeature(c) == NFeature - c

\* the radicand of line 149 for a co-visibility of c points
Radicand(c) == RelOffset - c

\* .sqrt() of the radicand r, as a class of values with the radicand kept:
\* NaN below zero, zero at zero, positive above
SqrtOf(r) ==
    [kind |-> IF r < 0 THEN "nan" ELSE IF r = 0 THEN "zero" ELSE "pos",
     sq |-> r]

\* a / b of two square roots in IEEE arithmetic
Ratio(a, b) ==
    IF a.kind = "nan" \/ b.kind = "nan" THEN "nan"
    ELSE IF b.kind = "zero" THEN (IF a.kind = "zero" THEN "nan" ELSE "inf")
    ELSE IF a.kind = "zero" THEN "zero"
    ELSE IF a.sq = b.sq THEN "one"
    ELSE IF a.sq < b.sq THEN "below" ELSE "above"

\* .log() of a ratio, as the sign class of the result
LogOf(q) ==
    CASE q = "nan" -> "nan"
      [] q = "zero" -> "-inf"
      [] q = "inf" -> "+inf"
      [] q = "one" -> "0"
      [] q = "below" -> "neg"
      [] q = "above" -> "pos"

\* .clamp(min=-10, max=10) of a logarithm: the infinities go to the bounds
\* and NaN stays
ClampLog(l) ==
    CASE l = "-inf" -> "min"
      [] l = "+inf" -> "max"
      [] OTHER -> l

\* line 149
Relevance(covis) == [s \in RkSampled |-> [b \in RkFrames |-> SqrtOf(Radicand(covis[s][b]))]]

\* line 154: relevance.unsqueeze(1) / relevance.unsqueeze(2), entry
\* [s][i][j] is relevance[s][j] / relevance[s][i]
RelevanceRatio(rel) ==
    [s \in RkSampled |-> [i \in RkFrames |-> [j \in RkFrames |->
        Ratio(rel[s][j], rel[s][i])]]]

\* line 154: (...).log().clamp(min=-10, max=10)
RelevanceLogRatio(ratio) ==
    [s \in RkSampled |-> [i \in RkFrames |-> [j \in RkFrames |->
        ClampLog(LogOf(ratio[s][i][j]))]]]

\* the co-visibility counts of the sampled frames with the frames of the
\* batch: every entry c, but for at most one entry under test
RKInit ==
    /\ \E c \in 0..NFeature, s0 \in RkSampled, b0 \in RkFrames :
       \E c0 \in {c, (c + 1) % (NFeature + 1)} :
          rkIn = [s \in RkSampled |-> [b \in RkFrames |->
                      IF s = s0 /\ b = b0 THEN c0 ELSE c]]
    /\ rkPc = "input"
    /\ rkOut = NoValue

\* lines 147-149: the relevance distances of the sampled frames
RkRelevance ==
    /\ rkPc = "input"
    /\ rkOut' = [relevance |-> Relevance(rkIn), ratio |-> NoValue, logRatio |-> NoValue]
    /\ rkPc' = "relevance"
    /\ UNCHANGED rkIn
    /\ UNCHANGED <<gdVars, dmVars, cvVars, kpVars, pxVars, bfVars>>

\* lines 153-154: the relevance log-ratio of the loss
RkLogRatio ==
    /\ rkPc = "relevance"
    /\ LET q == RelevanceRatio(rkOut.relevance)
       IN  rkOut' = [rkOut EXCEPT !.ratio = q, !.logRatio = RelevanceLogRatio(q)]
    /\ rkPc' = "done"
    /\ UNCHANGED rkIn
    /\ UNCHANGED <<gdVars, dmVars, cvVars, kpVars, pxVars, bfVars>>

InitRK == RKInit /\ GDIdle /\ DMIdle /\ CVIdle /\ KPIdle /\ PXIdle /\ BFIdle

NextRK ==
    \/ RkRelevance
    \/ RkLogRatio

SpecRK == InitRK /\ [][NextRK]_vars

----------------------------------------------------------------------------
(* DiscriptorMatchLoss.forward: the match/mismatch blending factor *)

\* bounds of the model: the radius is 1..MaxRadius pixels, the distances
\* 0..MaxBfDist in the same unit, and a batch has BfPairs point pairs
MaxRadius == 3
MaxBfDist == 8
BfPairs == 2

BfIndex == 1..BfPairs

\* the values of the pairwise cosine
BfCosVals == {-1, 0, 1}

\* line 216: dist <= self.radius
BfMatchCond(d, r) == d <= r

\* line 217: dist > self.radius
BfMissCond(d, r) == d > r

\* distances that are left as they are
ClampMax_None(d, m) == d

\* .clamp(max=m)
ClampMax(d, m) == IF d > m THEN m ELSE d

\* line 241, the denominator of f once its terms are brought over 4 r^2
FDen(r) == 4 * r * r

\* line 241, f(d) = 0.75 - (d - r) * (d + r) / (4 * r**2): the numerator
\* over FDen(r)
FNum(d, r) == 3 * r * r - (d - r) * (d + r)

\* lines 243-244: f(dist[mask].clamp(max=self.radius * 2))
Alpha(d, r) == FNum(ClampMax(d, 2 * r), r)

\* line 285: the numerator (1 - cos) * match + cos * (1 - match) of the
\* loss, over FDen(r), for a label weight of a / FDen(r)
NllBlend(cos, a, r) == (1 - cos) * a + cos * (FDen(r) - a)

BFInit ==
    /\ \E r \in 1..MaxRadius, d \in [BfIndex -> 0..MaxBfDist], c \in BfCosVals :
          bfIn = [radius |-> r, dist |-> d, cos |-> c]
    /\ bfPc = "input"
    /\ bfOut = NoValue

\* lines 216-217 and 241-244: the masks, and the factor of every pair of
\* each mask
BfBlend ==
    /\ bfPc = "input"
    /\ bfOut' = [match |-> {i \in BfIndex : BfMatchCond(bfIn.dist[i], bfIn.radius)},
                 miss |-> {i \in BfIndex : BfMissCond(bfIn.dist[i], bfIn.radius)},
                 alpha |-> [i \in BfIndex |-> Alpha(bfIn.dist[i], bfIn.radius)],
                 weight |-> NoValue, blend |-> NoValue]
    /\ bfPc' = "blended"
    /\ UNCHANGED bfIn
    /\ UNCHANGED <<gdVars, dmVars, cvVars, kpVars, pxVars, rkVars>>

\* lines 246 and 282-286: nll takes the factor as the weight `match` of the
\* label: match on 1 - cos, 1 - match on cos
BfNll ==
    /\ bfPc = "blended"
    /\ bfOut' = [bfOut EXCEPT
          !.weight = [i \in BfIndex |->
                        [pos |-> bfOut.alpha[i],
                         neg |-> FDen(bfIn.radius) - bfOut.alpha[i]]],
          !.blend = [i \in BfIndex |->
                        NllBlend(bfIn.cos, bfOut.alpha[i], bfIn.radius)]]
    /\ bfPc' = "done"
    /\ UNCHANGED bfIn
    /\ UNCHANGED <<gdVars, dmVars, cvVars, kpVars, pxVars, rkVars>>

InitBF == BFInit /\ GDIdle /\ DMIdle /\ CVIdle /\ KPIdle /\ PXIdle /\ RKIdle

NextBF ==
    \/ BfBlend
    \/ BfNll

SpecBF == InitBF /\ [][NextBF]_vars

----------------------------------------------------------------------------
(* Claims about GlobalDescMatchLoss.forward *)

Count(s, x) == Cardinality({i \in 1..Len(s) : s[i] = x})

\* a forward call has ended (returned or raised)
CallEnded == pc = 0 /\ calls > 0

\* C1: a forward call that starts on an empty buffer of its environment does
\* not raise, takes the cold branch, returns the zero scalar, has made exactly
\* one store call, and leaves exactly one frame in the buffer.
C1_ColdStart ==
    (CallEnded /\ lenAtStart = 0) =>
        /\ ~failed
        /\ branch = "cold"
        /\ result = 0
        /\ Count(memOps, "store") = 1
        /\ MemoryLen(mem, active) = 1
        /\ active = curEnv

\* a second cold start: another environment's first frame, after the first
\* environment has already stored one
C1_Witness ==
    /\ CallEnded /\ lenAtStart = 0 /\ calls >= 2
    /\ result = 0 /\ Len(mem[curEnv]) = 1
    /\ \E e \in Envs : e # curEnv /\ Len(mem[e]) >= 1

\* C2: in every forward call the Memory operations are ordered
\* swap, emptiness check, sample_frames (only on a non-empty buffer), store:
\* swap is the first operation and made once, a sample follows the emptiness
\* check and only when it read a positive occupancy, store is made once and
\* is the last operation in both branches, and neither the sample nor any
\* occupancy read observes the frame the same call stores.
C2_MemoryOrder ==
    /\ memOps # <<>> => memOps[1] = "swap"
    /\ Count(memOps, "swap") <= 1
    /\ Count(memOps, "store") <= 1
    /\ Count(memOps, "sample") <= 1
    /\ \A i \in 1..Len(memOps) :
          /\ memOps[i] = "store" => i = Len(memOps)
          /\ memOps[i] = "sample" =>
                i = 3 /\ memOps[2] = "len" /\ lenReads[1] > 0
    /\ (CallEnded /\ ~failed) =>
          /\ Count(memOps, "swap") = 1
          /\ Count(memOps, "store") = 1
          /\ memOps[Len(memOps)] = "store"
          /\ (branch = "rank") <=> (Count(memOps, "sample") = 1)
          /\ (branch = "cold") <=> (Count(memOps, "sample") = 0)
    /\ calls \notin sampled
    /\ \A i \in 1..Len(lenReads) : lenReads[i] = lenAtStart

\* a call in the rank branch, with a writer, on a full buffer, has returned
C2_Witness ==
    /\ CallEnded /\ ~failed /\ writer
    /\ branch = "rank"
    /\ sampled # {}
    /\ lenAtStart = MemCap
    /\ memOps = <<"swap", "len", "sample", "len", "len", "len", "store">>

----------------------------------------------------------------------------
(* Claims about DiscriptorMatchLoss.forward *)

DMDone == dmPc = "done"

\* C3: after the upper-triangle restriction match and miss are disjoint,
\* every pair with a finite distance that the restriction keeps lies in
\* exactly one of them, and every pair whose distance is NaN lies in neither.
C3_MatchMissPartition ==
    DMDone =>
        /\ dmOut.match \cap dmOut.miss = {}
        /\ \A e \in Entries :
              /\ (Triu(e) /\ dist[e] # NaN) =>
                    ((e \in dmOut.match) # (e \in dmOut.miss))
              /\ dist[e] = NaN => e \notin dmOut.match \cup dmOut.miss

\* a batch with a match, a miss and an invisible pair among the kept pairs
C3_Witness ==
    /\ DMDone
    /\ dmOut.status = "returned"
    /\ dmOut.match # {}
    /\ dmOut.miss # {}
    /\ \E e \in Entries : Triu(e) /\ dist[e] = NaN

CountIn(s, x) == Cardinality({i \in 1..Len(s) : s[i] = x})

\* kept holds the n largest values of all
IsTopOf(kept, all, n) ==
    /\ Len(kept) = n
    /\ \A x \in Range(kept) : CountIn(kept, x) <= CountIn(all, x)
    /\ \A x \in Range(all), y \in Range(kept) :
          CountIn(kept, x) < CountIn(all, x) => x <= y

\* C4 (as claimed): for any batch forward returns, the misses kept by the
\* top-k selection are the 2 * match.sum() misses of highest loss, and the
\* value returned is a finite scalar.
C4_HardNegativesFinite ==
    DMDone =>
        /\ dmOut.status = "returned"
        /\ IsTopOf(dmOut.kept, dmOut.lossMiss, 2 * Cardinality(dmOut.match))
        /\ dmOut.finite

\* C10 (as claimed): the pairs that enter the loss forward returns, those of
\* match and miss, all lie at frame pairs (a, b) with a < b.
C10_FramePairsOnce ==
    (DMDone /\ dmOut.status = "returned") =>
        \A e \in dmOut.match \cup dmOut.miss : e[1] < e[2]

----------------------------------------------------------------------------
(* Claims about feature_pt_ncovis *)

CVDone == cvPc = "done"

Marked(k) == cvOut.scr[k] = <<NaN, NaN>>

Unmarked(pair) == {n \in RefPoints : ~Marked(<<pair, n>>)}

SelfPair(pair) ==
    \A n \in RefPoints :
        /\ Abs(cvIn[<<pair, n>>].x) <= ScrBound
        /\ Abs(cvIn[<<pair, n>>].y) <= ScrBound
        /\ cvIn[<<pair, n>>].sampled = cvIn[<<pair, n>>].depth

----------------------------------------------------------------------------
(* Claims about the selection of keypoints *)

KpDone == kpPc = "done"

\* the keypoints of every image of the batch are n distinct points
KpYields(n) ==
    /\ kpOut.status = "returned"
    /\ \A b \in 1..KpBatch :
          /\ Len(kpOut.points[b]) = n
          /\ Cardinality(Range(kpOut.points[b])) = n

----------------------------------------------------------------------------
(* Claims about the pixel round trip *)

\* C8: for every image size and every flat index idx of the image, the
\* normalized coordinates of (idx mod W, idx div W) lie in [-1, 1], and
\* denormalizing and rounding them gives x', y' with idx = x' + y' * W.
C8_PixelRoundTrip ==
    /\ pxPc \in {"normalized", "done"} =>
          /\ pxOut.x[2] > 0 /\ pxOut.y[2] > 0
          /\ -pxOut.x[2] <= pxOut.x[1] /\ pxOut.x[1] <= pxOut.x[2]
          /\ -pxOut.y[2] <= pxOut.y[1] /\ pxOut.y[1] <= pxOut.y[2]
    /\ pxPc = "done" => pxIn.idx = pxOut.px + pxOut.py * pxIn.W

\* the last pixel of an image of several rows and columns has come back
C8_Witness ==
    /\ pxPc = "done"
    /\ pxIn.H > 1 /\ pxIn.W > 1 /\ pxIn.H # pxIn.W
    /\ pxIn.idx = pxIn.H * pxIn.W - 1
    /\ pxOut.px = pxIn.W - 1 /\ pxOut.py = pxIn.H - 1

----------------------------------------------------------------------------
(* Claims about the relevance term *)

\* every sampled frame has the same co-visibility count with every frame
RkUniform ==
    \A s \in RkSampled, b \in RkFrames : rkIn[s][b] = rkIn[1][1]

\* C9: when all co-visibility counts equal one c in 0..n_feature, every
\* relevance distance is well defined and non-zero, every pairwise
\* relevance ratio is exactly 1 and every relevance log-ratio is exactly 0.
C9_UniformRelevance ==
    (rkPc = "done" /\ RkUniform) =>
        \A s \in RkSampled, i \in RkFrames, j \in RkFrames :
            /\ rkOut.relevance[s][i].kind = "pos"
            /\ rkOut.ratio[s][i][j] = "one"
            /\ rkOut.logRatio[s][i][j] = "0"

\* the loss term has been computed with every count at n_feature
C9_Witness ==
    /\ rkPc = "done"
    /\ RkUniform
    /\ rkIn[1][1] = NFeature
    /\ rkOut.logRatio[NSample][RkBatch][1] = "0"

----------------------------------------------------------------------------
(* Claims about the blending factor *)

BfDone == bfPc = "done"

\* C11: for every radius r and every distance d >= 0 the factor
\* a / (4 r^2) of a pair lies in [0, 1], is 1 at d = 0, 0.75 at d = r and
\* 0 from d = 2r on, and does not increase with d; a match has a factor in
\* [0.75, 1] and a miss a factor in [0, 0.75); the factor changes by at most
\* |d1 - d2| / r between two distances, so the label weights of nll, the
\* factor and one minus the factor, make no jump at d = r.
C11_BlendingFactor ==
    BfDone =>
        LET r == bfIn.radius
            den == 4 * r * r
        IN  /\ \A i \in BfIndex :
                  LET d == bfIn.dist[i]
                      a == bfOut.alpha[i]
                  IN  /\ 0 <= a /\ a <= den
                      /\ d = 0 => a = den
                      /\ d = r => 4 * a = 3 * den
                      /\ d >= 2 * r => a = 0
                      /\ i \in bfOut.match => 3 * den <= 4 * a
                      /\ i \in bfOut.miss => 4 * a < 3 * den
                      /\ (i \in bfOut.match) # (i \in bfOut.miss)
                      /\ bfOut.weight[i].pos = a
                      /\ bfOut.weight[i].pos + bfOut.weight[i].neg = den
            /\ \A i \in BfIndex, j \in BfIndex :
                  bfIn.dist[i] <= bfIn.dist[j] =>
                      /\ bfOut.alpha[i] >= bfOut.alpha[j]
                      /\ (bfOut.alpha[i] - bfOut.alpha[j]) * r
                            <= den * (bfIn.dist[j] - bfIn.dist[i])

\* a batch with a match at the threshold and a miss between r and 2r has
\* gone through nll
C11_Witness ==
    /\ BfDone
    /\ bfIn.radius > 1
    /\ bfIn.dist[1] = bfIn.radius
    /\ bfIn.dist[2] = bfIn.radius + 1
    /\ 1 \in bfOut.match /\ 2 \in bfOut.miss
    /\ 0 < bfOut.alpha[2] /\ bfOut.alpha[2] < bfOut.alpha[1]

====
